---------------------------- MODULE Spec2Model ----------------------------
(***************************************************************************)
(* A model of budget_simulation_tool: the Item classes ConstantItem,       *)
(* DiscreteItem and ContinuousItem, and the Budget that drives them.       *)
(*                                                                         *)
(* Objects live in a heap (units); a Budget holds references into it.      *)
(* Every call is one action; call and ret record the last call made and    *)
(* what it returned or raised.  The random stream of numpy is a            *)
(* nondeterministic choice among the outcomes of positive probability.     *)
(***************************************************************************)
EXTENDS Integers, Sequences, FiniteSets, TLC

VARIABLES
    units,      \* the heap: a sequence of Item objects, addressed by position
    budgets,    \* the Budget objects built so far (each holds references)
    call,       \* the last call: its name and what identifies its arguments
    ret,        \* what the last call returned (val) or raised (err)
    last,       \* history: per unit, the state its latest completed
                \* transition produced (its initial state before any)
    trace       \* history: what the calls made inside the last call returned,
                \* in the order they were made

vars == <<units, budgets, call, ret, last, trace>>

---------------------------------------------------------------------------
(* Bounds of the model *)

\* a transition matrix handed to DiscreteItem has at most this many cells
MaxCells == 6
\* a label map has at most this many labels
MaxLabels == 3
\* simulate(n) is called with n in 0..MaxN
MaxN == 5
\* a ContinuousItem is followed while its value stays within -MaxVal..MaxVal
MaxVal == 6
\* a Budget is built over at most this many items
MaxItems == 2

\* Probabilities are held in halves (0, 0.5 and 1 are exact in binary floating
\* point, and so are their sums): the literal 1.0 of the row-sum assertion is
\* the integer 2.
One == 2

\* the entries a caller may write into a matrix: 0, 0.5, 1
Weights == 0..One

---------------------------------------------------------------------------
(* Python values *)

None == [t |-> "None", s |-> "", v |-> 0]
PyStr(x) == [t |-> "str", s |-> x, v |-> 0]
PyInt(x) == [t |-> "int", s |-> "", v |-> x]

Ok(v) == [err |-> "", val |-> v]
Raise(e) == [err |-> e, val |-> None]

Last(s) == s[Len(s)]

RECURSIVE Repeat(_, _)
\* [x] * n
Repeat(x, n) == IF n <= 0 THEN <<>> ELSE <<x>> \o Repeat(x, n - 1)

\* [x[j] for x in results]
Column(results, j) == [t \in 1..Len(results) |-> results[t][j]]

\* list.index: the position of the first occurrence, 0 standing for ValueError
Index(list, x) ==
    IF \E p \in 1..Len(list) : list[p] = x
    THEN CHOOSE p \in 1..Len(list) :
             list[p] = x /\ \A q \in 1..(p - 1) : list[q] # x
    ELSE 0

---------------------------------------------------------------------------
(* Item *)

\* Item.__init__(name, init = None)
Item(name, init) == [name |-> name, prior |-> init]

---------------------------------------------------------------------------
(* ConstantItem *)

\* ConstantItem.__init__: super().__init__(name) leaves prior at None
ConstantItem(name, value) ==
    LET self == Item(name, None)
    IN  Ok([kind |-> "ConstantItem", name |-> self.name, prior |-> self.prior,
            value |-> value])

\* a transition that records the value it returns as the prior
ConstantTransitionSetsPrior(self) ==
    {[unit |-> [self EXCEPT !.prior = self.value], err |-> "",
      val |-> <<self.value, self.value>>]}

\* ConstantItem.transition: no assignment to self
ConstantTransition(self) ==
    {[unit |-> self, err |-> "", val |-> <<self.value, self.value>>]}

\* ConstantItem.simulate
ConstantSimulate(self, n) ==
    {[unit |-> self, err |-> "", results |-> <<>>,
      val |-> <<Repeat(self.value, n), Repeat(self.value, n)>>]}

---------------------------------------------------------------------------
(* numpy *)

RECURSIVE Sum(_)
\* the sum of a sequence of numbers
Sum(row) == IF row = <<>> THEN 0 ELSE row[1] + Sum(Tail(row))

NRows(m) == Len(m)
NCols(m) == Len(m[1])

\* np.asmatrix: a flat list of numbers becomes a matrix of one row, a list of
\* rows is kept
AsMatrix(tm) == IF tm.ndim = 1 THEN <<tm.data>> ELSE tm.data

\* m.T
Transpose(m) == [j \in 1..NCols(m) |-> [i \in 1..NRows(m) |-> m[i][j]]]

\* np.vstack(blocks): the rows of the blocks, one block after the other
RECURSIVE VStack(_)
VStack(blocks) ==
    IF blocks = <<>> THEN <<>> ELSE blocks[1] \o VStack(Tail(blocks))

\* np.all(m.sum(axis = 1) == 1.0)
AllRowsSumToOne(m) == \A i \in 1..NRows(m) : Sum(m[i]) = One

\* a choice that ignores the probabilities
RandomChoiceUniform(a, p) ==
    [err |-> "", picks |-> {a[j] : j \in 1..Len(a)}]

\* np.random.choice(a, p = p): raises when a and p differ in size or an entry
\* of p is negative or p does not sum to 1; otherwise any entry of a whose
\* probability is positive may come out
RandomChoice(a, p) ==
    IF Len(a) # Len(p) THEN [err |-> "ValueError", picks |-> {}]
    ELSE IF \E j \in 1..Len(p) : p[j] < 0
    THEN [err |-> "ValueError", picks |-> {}]
    ELSE IF Sum(p) # One THEN [err |-> "ValueError", picks |-> {}]
    ELSE [err |-> "", picks |-> {a[j] : j \in {q \in 1..Len(p) : p[q] > 0}}]

---------------------------------------------------------------------------
(* DiscreteItem *)

\* the labels a label map may use, in the order a caller writes them
Alphabet == <<"A", "B", "C", "D", "E", "F", "G", "H">>

\* a label map of k labels: label number j carries the payload j
LabelMap(k) == [l \in {Alphabet[j] : j \in 1..k} |-> PyInt(Index(Alphabet, l))]

\* list(states.keys()): the labels in insertion order
Keys(states) ==
    [j \in 1..Cardinality(DOMAIN states) |->
        PyStr(CHOOSE l \in DOMAIN states : Index(Alphabet, l) = j)]

\* the init argument: None, a value, or a callable returning a value
InitNone == [how |-> "None", val |-> None]
InitValue(v) == [how |-> "value", val |-> v]
InitCallable(v) == [how |-> "callable", val |-> v]

\* lines 42-48 and 104-108: init is not None / callable(init) / init()
ResolveInit(init, otherwise) ==
    IF init.how # "None"
    THEN IF init.how = "callable" THEN init.val ELSE init.val
    ELSE otherwise

\* a broadcast that stacks a single row and leaves a single column as it is
BroadcastRowOnly(m) ==
    IF NRows(m) = 1
    THEN LET row == m IN VStack(Repeat(row, NCols(row)))
    ELSE m

\* lines 56-63: a single row, or a single column, is stacked into a square
Broadcast(m) ==
    IF NRows(m) = 1
    THEN LET row == m IN VStack(Repeat(row, NCols(row)))
    ELSE IF NCols(m) = 1
    THEN LET row == Transpose(m) IN VStack(Repeat(row, NCols(row)))
    ELSE m

\* the assertion of lines 71-76: len() of a matrix is its number of rows
DimensionsAlign(states, m) == Cardinality(DOMAIN states) = Len(m)

\* DiscreteItem.__init__; draw is the label np.random.choice picks when init
\* is omitted
DiscreteItem(name, states, transition_matrix, init, draw) ==
    LET self == Item(name, None)
        state_names == Keys(states)
        prior == ResolveInit(init, draw)
        m == Broadcast(AsMatrix(transition_matrix))
    IN  IF ~AllRowsSumToOne(m) THEN Raise("AssertionError")
        ELSE IF ~DimensionsAlign(states, m) THEN Raise("AssertionError")
        ELSE Ok([kind |-> "DiscreteItem", name |-> self.name, prior |-> prior,
                 states |-> states, state_names |-> state_names,
                 transition_matrix |-> m])

\* a transition that forgets the assignment to self.prior
SetPriorDropped(self, v) == self

\* self.prior = v (lines 83 and 118)
SetPrior(self, v) == [self EXCEPT !.prior = v]

\* DiscreteItem.transition: the set of its outcomes
DiscreteTransition(self) ==
    LET prior_pos == Index(self.state_names, self.prior)
    IN  IF prior_pos = 0
        THEN {[unit |-> self, err |-> "ValueError", val |-> None]}
        ELSE LET transition_probs == self.transition_matrix[prior_pos]
                 choice == RandomChoice(self.state_names, transition_probs)
             IN  IF choice.err # ""
                 THEN {[unit |-> self, err |-> choice.err, val |-> None]}
                 ELSE {[unit |-> SetPrior(self, next_state_name),
                        err |-> "",
                        val |-> <<next_state_name,
                                  self.states[next_state_name.s]>>] :
                       next_state_name \in choice.picks}

---------------------------------------------------------------------------
(* ContinuousItem *)

\* The recurrences a caller may hand over.  args are the parameter names of
\* the function, locals the names of its local variables: __code__.co_varnames
\* lists the former followed by the latter.
\*   FxInc:     def f(prior): return prior + 1
\*   FxFlip:    def f(prior): return 1 - prior
\*   FxTwo:     def f(): return 2
\*   FxShadow:  def f(): prior = 3; return prior
FxInc == [id |-> "inc", args |-> <<"prior">>, locals |-> <<>>]
FxFlip == [id |-> "flip", args |-> <<"prior">>, locals |-> <<>>]
FxTwo == [id |-> "two", args |-> <<>>, locals |-> <<>>]
FxShadow == [id |-> "shadow", args |-> <<>>, locals |-> <<"prior">>]
Recurrences == {FxInc, FxFlip, FxTwo, FxShadow}

In(x, list) == \E j \in 1..Len(list) : list[j] = x

\* transition_fx.__code__.co_varnames
CoVarnames(fx) == fx.args \o fx.locals

\* the body of a recurrence, run with its parameter bound to prior
Body(fx, prior) ==
    CASE fx.id = "inc" ->
            IF prior.t = "int" THEN Ok(PyInt(prior.v + 1)) ELSE Raise("TypeError")
      [] fx.id = "flip" ->
            IF prior.t = "int" THEN Ok(PyInt(1 - prior.v)) ELSE Raise("TypeError")
      [] fx.id = "two" -> Ok(PyInt(2))
      [] fx.id = "shadow" -> Ok(PyInt(3))

\* a Python call fx(**kwargs), kwargs a sequence of <<name, value>>: a keyword
\* the function does not declare, or a parameter left without a value, is a
\* TypeError
CallFx(fx, kwargs) ==
    IF \E j \in 1..Len(kwargs) : ~In(kwargs[j][1], fx.args)
    THEN Raise("TypeError")
    ELSE IF \E a \in 1..Len(fx.args) :
                ~\E j \in 1..Len(kwargs) : kwargs[j][1] = fx.args[a]
    THEN Raise("TypeError")
    ELSE Body(fx, IF kwargs = <<>> THEN None ELSE kwargs[1][2])

\* ContinuousItem.__init__
ContinuousItem(name, transition_fx, init) ==
    LET self == Item(name, None)
        prior == ResolveInit(init, self.prior)
    IN  IF init.how = "None" /\ In("prior", CoVarnames(transition_fx))
        THEN Raise("AssertionError")
        ELSE Ok([kind |-> "ContinuousItem", name |-> self.name,
                 prior |-> prior, transition_fx |-> transition_fx])

\* a transition that calls the recurrence without arguments whatever its names
ContinuousTransitionNoArgument(self) ==
    LET res == CallFx(self.transition_fx, <<>>)
    IN  IF res.err # ""
        THEN {[unit |-> self, err |-> res.err, val |-> None]}
        ELSE {[unit |-> SetPrior(self, res.val), err |-> "",
               val |-> <<res.val, res.val>>]}

\* ContinuousItem.transition
ContinuousTransition(self) ==
    LET res == IF In("prior", CoVarnames(self.transition_fx))
               THEN CallFx(self.transition_fx, <<<<"prior", self.prior>>>>)
               ELSE CallFx(self.transition_fx, <<>>)
    IN  IF res.err # ""
        THEN {[unit |-> self, err |-> res.err, val |-> None]}
        ELSE {[unit |-> SetPrior(self, res.val), err |-> "",
               val |-> <<res.val, res.val>>]}

---------------------------------------------------------------------------
(* transition and simulate of an Item *)

\* self.transition(), by the class of self
Transition(self) ==
    CASE self.kind = "ConstantItem" -> ConstantTransition(self)
      [] self.kind = "DiscreteItem" -> DiscreteTransition(self)
      [] self.kind = "ContinuousItem" -> ContinuousTransition(self)

RECURSIVE SimulateLoop(_, _, _)
\* for i in range(n): event = self.transition(); results.append(event)
\* An exception leaves the loop with the state reached so far.
SimulateLoop(self, n, results) ==
    IF n <= 0
    THEN {[unit |-> self, err |-> "", results |-> results]}
    ELSE UNION {IF event.err # ""
                THEN {[unit |-> event.unit, err |-> event.err,
                       results |-> results]}
                ELSE SimulateLoop(event.unit, n - 1, Append(results, event.val)) :
                event \in Transition(self)}

\* a simulate whose trajectory records the label each transition started from
DiscreteSimulateFromPrior(self, n) ==
    {[unit |-> run.unit, err |-> run.err, results |-> run.results,
      val |-> IF run.err # "" THEN None
              ELSE LET state_names ==
                           [t \in 1..Len(run.results) |->
                               IF t = 1 THEN self.prior
                               ELSE run.results[t - 1][1]]
                       state_values == Column(run.results, 2)
                   IN  <<state_names, state_values>>] :
     run \in SimulateLoop(self, n, <<>>)}

\* DiscreteItem.simulate
DiscreteSimulate(self, n) ==
    {[unit |-> run.unit, err |-> run.err, results |-> run.results,
      val |-> IF run.err # "" THEN None
              ELSE LET state_names == Column(run.results, 1)
                       state_values == Column(run.results, 2)
                   IN  <<state_names, state_values>>] :
     run \in SimulateLoop(self, n, <<>>)}

\* ContinuousItem.simulate
ContinuousSimulate(self, n) ==
    {[unit |-> run.unit, err |-> run.err, results |-> run.results,
      val |-> IF run.err # "" THEN None
              ELSE LET state_values == Column(run.results, 1)
                   IN  <<state_values, state_values>>] :
     run \in SimulateLoop(self, n, <<>>)}

\* self.simulate(n), by the class of self
Simulate(self, n) ==
    CASE self.kind = "ConstantItem" -> ConstantSimulate(self, n)
      [] self.kind = "DiscreteItem" -> DiscreteSimulate(self, n)
      [] self.kind = "ContinuousItem" -> ContinuousSimulate(self, n)

\* the state a transition of self that returned val has produced: the label
\* of a DiscreteItem, the value otherwise
Produced(self, val) == IF self.kind = "DiscreteItem" THEN val[1] ELSE val[2]

\* the values an outcome generated stay within the range the model follows
InRange(v) == v.t = "int" => (v.v >= -MaxVal /\ v.v <= MaxVal)

---------------------------------------------------------------------------
(* The calls on one unit *)

\* a new object enters the heap; its history starts at its initial state
New(made, initial) ==
    IF made.err # ""
    THEN /\ ret' = made
         /\ trace' = <<>>
         /\ UNCHANGED <<units, last>>
    ELSE /\ units' = Append(units, made.val)
         /\ last' = Append(last, initial)
         /\ ret' = Ok(PyInt(Len(units) + 1))
         /\ trace' = <<>>

\* the matrices a caller may hand over: lists of rows, and flat lists
Shapes == {sh \in (1..MaxCells) \X (1..MaxCells) : sh[1] * sh[2] <= MaxCells}
MatrixInputs ==
    UNION {[ndim : {2}, data : [1..sh[1] -> [1..sh[2] -> Weights]]] : sh \in Shapes}
    \cup UNION {[ndim : {1}, data : [1..c -> Weights]] : c \in 1..MaxCells}

\* the init arguments a caller may hand to a DiscreteItem
LabelInits ==
    {InitNone} \cup {InitValue(PyStr(Alphabet[j])) : j \in 1..MaxLabels}
               \cup {InitCallable(PyStr(Alphabet[j])) : j \in 1..MaxLabels}

\* the init arguments a caller may hand to a ContinuousItem
NumberInits ==
    {InitNone} \cup {InitValue(PyInt(v)) : v \in 0..1}
               \cup {InitCallable(PyInt(v)) : v \in 0..1}

NewConstant ==
    /\ call.op = "start"
    /\ \E value \in 0..1 :
          /\ New(ConstantItem("a", PyInt(value)), None)
          /\ call' = [op |-> "ConstantItem"]
    /\ UNCHANGED budgets

NewDiscrete ==
    /\ call.op = "start"
    /\ \E k \in 1..MaxLabels, tm \in MatrixInputs, init \in LabelInits :
          \E draw \in IF init.how = "None"
                      THEN {PyStr(Alphabet[j]) : j \in 1..k} ELSE {None} :
             /\ New(DiscreteItem("a", LabelMap(k), tm, init, draw),
                    IF init.how = "None" THEN draw ELSE init.val)
             /\ call' = [op |-> "DiscreteItem", labels |-> k,
                         shape |-> <<NRows(AsMatrix(tm)), NCols(AsMatrix(tm))>>,
                         init |-> init]
    /\ UNCHANGED budgets

NewContinuous ==
    /\ call.op = "start"
    /\ \E fx \in Recurrences, init \in NumberInits :
          /\ New(ContinuousItem("a", fx, init), init.val)
          /\ call' = [op |-> "ContinuousItem", fx |-> fx, init |-> init]
    /\ UNCHANGED budgets

\* units[i].transition()
DoTransition(i) ==
    /\ \E out \in Transition(units[i]) :
          /\ out.err = "" => InRange(out.val[1])
          /\ units' = [units EXCEPT ![i] = out.unit]
          /\ ret' = [err |-> out.err, val |-> out.val]
          /\ last' = IF out.err # "" THEN last
                     ELSE [last EXCEPT ![i] = Produced(units[i], out.val)]
    /\ call' = [op |-> "transition", self |-> i]
    /\ trace' = <<>>
    /\ UNCHANGED budgets

\* units[i].simulate(n)
DoSimulate(i, n) ==
    /\ \E out \in Simulate(units[i], n) :
          /\ \A t \in 1..Len(out.results) : InRange(out.results[t][1])
          /\ units' = [units EXCEPT ![i] = out.unit]
          /\ ret' = [err |-> out.err, val |-> out.val]
          /\ trace' = out.results
          /\ last' = IF out.results = <<>> THEN last
                     ELSE [last EXCEPT ![i] =
                             Produced(units[i], Last(out.results))]
    /\ call' = [op |-> "simulate", self |-> i, n |-> n]
    /\ UNCHANGED budgets

Init ==
    /\ units = <<>>
    /\ budgets = <<>>
    /\ call = [op |-> "start"]
    /\ ret = Ok(None)
    /\ last = <<>>
    /\ trace = <<>>

Next ==
    \/ NewConstant
    \/ NewDiscrete
    \/ NewContinuous
    \/ \E i \in 1..Len(units) : DoTransition(i)
    \/ \E i \in 1..Len(units), n \in 0..MaxN : DoSimulate(i, n)

Spec == Init /\ [][Next]_vars

---------------------------------------------------------------------------
(* pandas *)

RECURSIVE DictComp(_, _, _)
\* {k: v for k, v in zip(keys, vals)}, added to the dict d: a key seen again
\* keeps its place and takes the later value
DictComp(d, keys, vals) ==
    IF keys = <<>> THEN d
    ELSE LET k == Head(keys)
             seen == In(k, d.keys)
         IN  DictComp([keys |-> IF seen THEN d.keys ELSE Append(d.keys, k),
                       vals |-> [x \in {d.keys[j] : j \in 1..Len(d.keys)} \cup {k}
                                   |-> IF x = k THEN Head(vals) ELSE d.vals[x]]],
                      Tail(keys), Tail(vals))

EmptyDict == [keys |-> <<>>, vals |-> <<>>]

\* pd.DataFrame(d): one column per key, in the order of the keys; the index is
\* 0 .. (length of the columns) - 1, and empty when there is no column
DataFrame(d) ==
    LET nrows == IF d.keys = <<>> THEN 0 ELSE Len(d.vals[d.keys[1]])
    IN  IF \E j \in 1..Len(d.keys) : Len(d.vals[d.keys[j]]) # nrows
        THEN Raise("ValueError")
        ELSE Ok([columns |-> d.keys,
                 index |-> [t \in 1..nrows |-> t - 1],
                 index_name |-> None,
                 data |-> [j \in 1..Len(d.keys) |-> d.vals[d.keys[j]]]])

\* df.columns = names: the number of names must be the number of columns
SetColumns(df, names) ==
    IF Len(names) # Len(df.columns) THEN Raise("ValueError")
    ELSE Ok([df EXCEPT !.columns = names])

\* df.index.name = name
SetIndexName(df, name) == [df EXCEPT !.index_name = name]

---------------------------------------------------------------------------
(* Budget *)

\* Budget.__init__(*items): the references are kept as given
Budget(items) == Ok([kind |-> "Budget", items |-> items])

RECURSIVE BudgetTransitionLoop(_, _, _, _)
\* for i in self.items: res.append(i.transition()), over the heap; hist is the
\* history last, carried along
BudgetTransitionLoop(heap, hist, items, res) ==
    IF items = <<>>
    THEN {[units |-> heap, last |-> hist, err |-> "", res |-> res]}
    ELSE LET i == Head(items)
         IN  UNION {IF out.err # ""
                    THEN {[units |-> [heap EXCEPT ![i] = out.unit],
                           last |-> hist, err |-> out.err, res |-> res]}
                    ELSE BudgetTransitionLoop(
                             [heap EXCEPT ![i] = out.unit],
                             [hist EXCEPT ![i] = Produced(heap[i], out.val)],
                             Tail(items), Append(res, out.val)) :
                    out \in Transition(heap[i])}

\* Budget.transition
BudgetTransition(self, heap, hist) ==
    {[units |-> run.units, last |-> run.last, err |-> run.err, res |-> run.res,
      val |-> IF run.err # "" THEN None
              ELSE LET state_names == Column(run.res, 1)
                       state_values == Column(run.res, 2)
                   IN  <<state_names, state_values>>] :
     run \in BudgetTransitionLoop(heap, hist, self.items, <<>>)}

RECURSIVE BudgetSimulateLoop(_, _, _, _, _)
\* for i in self.items: res.append(i.simulate(n)), over the heap
BudgetSimulateLoop(heap, hist, items, n, res) ==
    IF items = <<>>
    THEN {[units |-> heap, last |-> hist, err |-> "", res |-> res]}
    ELSE LET i == Head(items)
         IN  UNION {LET heap1 == [heap EXCEPT ![i] = out.unit]
                        hist1 == IF out.results = <<>> THEN hist
                                 ELSE [hist EXCEPT ![i] =
                                         Produced(heap[i], Last(out.results))]
                    IN  IF out.err # ""
                        THEN {[units |-> heap1, last |-> hist1,
                               err |-> out.err, res |-> res]}
                        ELSE BudgetSimulateLoop(heap1, hist1, Tail(items), n,
                                                Append(res, out.val)) :
                    out \in Simulate(heap[i], n)}

\* lines 150-154 and 156-160: the table of column j of the items' results
Table(self, heap, res, j) ==
    LET names == [x \in 1..Len(self.items) |-> heap[self.items[x]].name]
        df == DataFrame(DictComp(EmptyDict, names, Column(res, j)))
    IN  IF df.err # "" THEN df
        ELSE LET renamed == SetColumns(df.val, names)
             IN  IF renamed.err # "" THEN renamed
                 ELSE Ok(SetIndexName(renamed.val, PyStr("time")))

\* Budget.simulate
BudgetSimulate(self, heap, hist, n) ==
    {[units |-> run.units, last |-> run.last, res |-> run.res,
      ret |-> IF run.err # "" THEN Raise(run.err)
              ELSE LET df_state_names == Table(self, run.units, run.res, 1)
                       df_state_values == Table(self, run.units, run.res, 2)
                   IN  IF df_state_names.err # "" THEN df_state_names
                       ELSE IF df_state_values.err # "" THEN df_state_values
                       ELSE Ok(<<df_state_names.val, df_state_values.val>>)] :
     run \in BudgetSimulateLoop(heap, hist, self.items, n, <<>>)}

---------------------------------------------------------------------------
(* The calls on a Budget *)

\* The units a Budget is built over: a constant, a chain of two labels, a
\* counter, a second constant under the name of the first, and a chain whose
\* initial label is none of its labels.
Ledger ==
    << ConstantItem("a", PyInt(5)).val,
       DiscreteItem("b", LabelMap(2),
                    [ndim |-> 2, data |-> <<<<1, 1>>, <<2, 0>>>>],
                    InitValue(PyStr("A")), None).val,
       ContinuousItem("c", FxInc, InitValue(PyInt(0))).val,
       ConstantItem("a", PyInt(7)).val,
       DiscreteItem("d", LabelMap(1), [ndim |-> 2, data |-> <<<<2>>>>],
                    InitValue(PyStr("B")), None).val >>

RECURSIVE SeqsUpTo(_, _)
\* the sequences over S of length at most n
SeqsUpTo(S, n) ==
    IF n = 0 THEN {<<>>}
    ELSE LET shorter == SeqsUpTo(S, n - 1)
         IN  shorter \cup {Append(q, x) : q \in shorter, x \in S}

\* Budget(*items)
NewBudget ==
    /\ call.op = "start"
    /\ \E items \in SeqsUpTo(1..Len(units), MaxItems) :
          /\ budgets' = Append(budgets, Budget(items).val)
          /\ call' = [op |-> "Budget", items |-> items]
          /\ ret' = Ok(PyInt(Len(budgets) + 1))
    /\ trace' = <<>>
    /\ UNCHANGED <<units, last>>

\* budgets[b].transition()
DoBudgetTransition(b) ==
    /\ \E out \in BudgetTransition(budgets[b], units, last) :
          /\ \A x \in 1..Len(out.res) : InRange(out.res[x][1])
          /\ units' = out.units
          /\ last' = out.last
          /\ ret' = [err |-> out.err, val |-> out.val]
          /\ trace' = out.res
    /\ call' = [op |-> "Budget.transition", self |-> b]
    /\ UNCHANGED budgets

\* budgets[b].simulate(n)
DoBudgetSimulate(b, n) ==
    /\ \E out \in BudgetSimulate(budgets[b], units, last, n) :
          /\ \A x \in 1..Len(out.res) :
                \A t \in 1..Len(out.res[x][1]) : InRange(out.res[x][1][t])
          /\ units' = out.units
          /\ last' = out.last
          /\ ret' = out.ret
          /\ trace' = out.res
    /\ call' = [op |-> "Budget.simulate", self |-> b, n |-> n]
    /\ UNCHANGED budgets

InitBudget ==
    /\ units = Ledger
    /\ budgets = <<>>
    /\ call = [op |-> "start"]
    /\ ret = Ok(None)
    /\ last = [i \in 1..Len(Ledger) |-> Ledger[i].prior]
    /\ trace = <<>>

NextBudget ==
    \/ NewBudget
    \/ \E b \in 1..Len(budgets) : DoBudgetTransition(b)
    \/ \E b \in 1..Len(budgets), n \in 0..MaxN : DoBudgetSimulate(b, n)

SpecBudget == InitBudget /\ [][NextBudget]_vars

---------------------------------------------------------------------------
(* The calls on a Budget and on its items *)

\* The holder of the units calls them directly as well as through the Budgets
\* built over them: the constant a, the chain b and the counter c of the
\* Ledger, and the Budgets Budget(c, a) and Budget(b, c).
InitLedger ==
    /\ units = SubSeq(Ledger, 1, 3)
    /\ budgets = <<Budget(<<3, 1>>).val, Budget(<<2, 3>>).val>>
    /\ call = [op |-> "start"]
    /\ ret = Ok(None)
    /\ last = [i \in 1..3 |-> Ledger[i].prior]
    /\ trace = <<>>

NextLedger ==
    \/ \E i \in 1..Len(units) : DoTransition(i)
    \/ \E i \in 1..Len(units), n \in 0..MaxN : DoSimulate(i, n)
    \/ \E b \in 1..Len(budgets) : DoBudgetTransition(b)
    \/ \E b \in 1..Len(budgets), n \in 0..MaxN : DoBudgetSimulate(b, n)

SpecLedger == InitLedger /\ [][NextLedger]_vars

---------------------------------------------------------------------------
(* A DiscreteItem built from one vector of probabilities *)

\* the vectors a caller may hand over
Vectors == UNION {[1..c -> Weights] : c \in 1..MaxLabels}

\* the vector r written as a list, as one row, as one column, and as the
\* square matrix whose every row is r
AsList(r) == [ndim |-> 1, data |-> r]
AsRow(r) == [ndim |-> 2, data |-> <<r>>]
AsColumn(r) == [ndim |-> 2, data |-> [i \in 1..Len(r) |-> <<r[i]>>]]
AsSquare(r) == [ndim |-> 2, data |-> [i \in 1..Len(r) |-> r]]

Written(r, form) ==
    CASE form = "list" -> AsList(r)
      [] form = "row" -> AsRow(r)
      [] form = "column" -> AsColumn(r)
      [] form = "square" -> AsSquare(r)

NewDiscreteOfVector ==
    /\ call.op = "start"
    /\ \E k \in 1..MaxLabels, r \in Vectors, init \in LabelInits,
          form \in {"list", "row", "column", "square"} :
          \E draw \in IF init.how = "None"
                      THEN {PyStr(Alphabet[j]) : j \in 1..k} ELSE {None} :
             /\ New(DiscreteItem("a", LabelMap(k), Written(r, form), init, draw),
                    IF init.how = "None" THEN draw ELSE init.val)
             /\ call' = [op |-> "DiscreteItem", labels |-> k, init |-> init,
                         draw |-> draw, vector |-> r, form |-> form]
    /\ UNCHANGED budgets

NextBroadcast ==
    \/ NewDiscreteOfVector
    \/ \E i \in 1..Len(units) : DoTransition(i)
    \/ \E i \in 1..Len(units), n \in 0..MaxN : DoSimulate(i, n)

SpecBroadcast == Init /\ [][NextBroadcast]_vars

---------------------------------------------------------------------------
(* Units without randomness *)

\* A ConstantItem, and the DiscreteItem of labels {A: 1, B: 2} whose matrix
\* sends both labels to A with probability 1, built on the label B:
\*   ConstantItem('a', value)
\*   DiscreteItem('b', {'A': 1, 'B': 2}, [[1, 0], [1, 0]], init = 'B')
Absorbing == [ndim |-> 2, data |-> <<<<One, 0>>, <<One, 0>>>>]
DeterministicUnits(value) ==
    << ConstantItem("a", PyInt(value)).val,
       DiscreteItem("b", LabelMap(2), Absorbing, InitValue(PyStr("B")),
                    None).val >>

InitDeterministic ==
    /\ \E value \in 0..MaxVal :
          /\ units = DeterministicUnits(value)
          /\ last = [i \in 1..2 |-> DeterministicUnits(value)[i].prior]
    /\ budgets = <<>>
    /\ call = [op |-> "start"]
    /\ ret = Ok(None)
    /\ trace = <<>>

NextDeterministic ==
    \/ \E i \in 1..Len(units) : DoTransition(i)
    \/ \E i \in 1..Len(units), n \in 0..MaxN : DoSimulate(i, n)

SpecDeterministic == InitDeterministic /\ [][NextDeterministic]_vars

---------------------------------------------------------------------------
(* Claims *)

IsChain(u) == u.kind \in {"DiscreteItem", "ContinuousItem"}

\* C1, as stated: for every unit, whatever its class, prior is the state its
\* most recent transition produced (the label returned by a DiscreteItem, the
\* value returned otherwise), or its initial state when none has occurred.
C1_PriorIsLastProduced ==
    \A i \in 1..Len(units) : units[i].prior = last[i]

\* C1, amended: the prior of a DiscreteItem or ContinuousItem is the state its
\* most recent completed transition produced, or its initial state when none
\* has completed; the prior of a ConstantItem is None whatever was called.
C1_PriorIsLastProducedByChains ==
    \A i \in 1..Len(units) :
        /\ IsChain(units[i]) => units[i].prior = last[i]
        /\ units[i].kind = "ConstantItem" => units[i].prior = None

\* C1's case: a DiscreteItem built on label A has run simulate(2) and stands
\* on B, the label of its second transition
C1_Witness ==
    /\ call.op = "simulate" /\ call.n = 2 /\ ret.err = ""
    /\ units[1].kind = "DiscreteItem"
    /\ trace[1][1] = PyStr("A") /\ trace[2][1] = PyStr("B")
    /\ units[1].prior = PyStr("B")

\* C2, as stated: once a DiscreteItem or ContinuousItem has been constructed,
\* no transition() and no simulate(n) on it raises.
C2_NoErrorAfterConstruction ==
    (call.op \in {"transition", "simulate"} /\ IsChain(units[call.self]))
        => ret.err = ""

\* C3, as stated: every constructed DiscreteItem holds a matrix of k rows and
\* k columns, k its number of labels, and every row sums to 1.0.
C3_MatrixIsSquareAndStochastic ==
    \A i \in 1..Len(units) :
        units[i].kind = "DiscreteItem" =>
            LET m == units[i].transition_matrix
                k == Cardinality(DOMAIN units[i].states)
            IN  /\ Len(m) = k
                /\ \A x \in 1..Len(m) : Len(m[x]) = k /\ Sum(m[x]) = One

\* C4, as stated: simulate(m) of a Budget of n items, whatever their names,
\* returns two tables of m rows indexed 0..m-1 and n columns named after the
\* items in construction order, the cell at row t of item x's column being the
\* t-th label (first table) or value (second table) of item x's simulate(m).
C4_SimulateTables ==
    call.op = "Budget.simulate" =>
        LET items == budgets[call.self].items
        IN  /\ ret.err = ""
            /\ Len(trace) = Len(items)
            /\ \A j \in 1..2 :
                  LET df == ret.val[j]
                  IN  /\ df.index = [t \in 1..call.n |-> t - 1]
                      /\ df.columns =
                            [x \in 1..Len(items) |-> units[items[x]].name]
                      /\ Len(df.data) = Len(items)
                      /\ \A x \in 1..Len(items) :
                            /\ Len(df.data[x]) = call.n
                            /\ \A t \in 1..call.n :
                                  df.data[x][t] = trace[x][j][t]

\* C5, as stated: simulate(n) of a DiscreteItem or ContinuousItem returns two
\* sequences of length n, which are the labels and the values of n transitions
\* made one after the other, each from the state the one before left, and the
\* unit ends on the state of the last of them.
C5_SimulateIsNTransitions ==
    (call.op = "simulate" /\ IsChain(units[call.self])) =>
        LET u == units[call.self]
            n == call.n
        IN  /\ ret.err = ""
            /\ Len(ret.val[1]) = n /\ Len(ret.val[2]) = n /\ Len(trace) = n
            /\ \A t \in 1..n :
                  ret.val[1][t] = trace[t][1] /\ ret.val[2][t] = trace[t][2]
            /\ \A t \in 1..(n - 1) :
                  \E out \in Transition([u EXCEPT !.prior = Produced(u, trace[t])]) :
                      out.err = "" /\ out.val = trace[t + 1]
            /\ n > 0 => u.prior = Produced(u, trace[n])

\* C6: a transition() of a DiscreteItem that stands on label L returns only a
\* label of its label map whose probability in L's row of the matrix is
\* positive, together with the payload the label map gives that label, and
\* leaves prior on the returned label.
C6_TransitionFollowsRow ==
    [][(/\ call'.op = "transition"
        /\ units # <<>>
        /\ units[call'.self].kind = "DiscreteItem"
        /\ ret'.err = "")
       => LET u == units[call'.self]
              L == Index(u.state_names, u.prior)
              label == ret'.val[1]
              to == Index(u.state_names, label)
          IN  /\ L > 0 /\ to > 0
              /\ label.s \in DOMAIN u.states
              /\ u.transition_matrix[L][to] > 0
              /\ ret'.val[2] = u.states[label.s]
              /\ units'[call'.self].prior = label
              /\ units'[call'.self].prior # ret'.val[2]]_vars

\* C6's case: a DiscreteItem on a row of two positive entries has moved to B
\* and returned B with B's payload
C6_Witness ==
    /\ call.op = "transition" /\ ret.err = ""
    /\ units[1].kind = "DiscreteItem"
    /\ units[1].transition_matrix = <<<<2, 0>>, <<1, 1>>>>
    /\ last[1] = PyStr("B")
    /\ ret.val = <<PyStr("B"), PyInt(2)>>
    /\ units[1].prior = PyStr("B")

\* the labels a transition of u may return when u stands on its label number L
NextLabels(u, L) ==
    {out.val[1] : out \in Transition([u EXCEPT !.prior = u.state_names[L]])}

\* C7: a DiscreteItem built from a vector r of length k written as one row, as
\* one column or as a list is the DiscreteItem built from the k x k matrix
\* whose every row is r (and is refused when that one is); its matrix is that
\* square matrix, and every label has the same set of possible next labels.
C7_BroadcastIsSquareOfRows ==
    call.op = "DiscreteItem" =>
        LET r == call.vector
            square == DiscreteItem("a", LabelMap(call.labels), AsSquare(r),
                                   call.init, call.draw)
        IN  /\ ret.err = square.err
            /\ ret.err = "" =>
                  /\ units[1] = square.val
                  /\ units[1].transition_matrix = [i \in 1..Len(r) |-> r]
                  /\ \A L1, L2 \in 1..Len(units[1].state_names) :
                        NextLabels(units[1], L1) = NextLabels(units[1], L2)

\* C7's case: the vector (0.5, 0.5) handed over as a column has become the
\* 2 x 2 matrix of rows (0.5, 0.5)
C7_Witness ==
    /\ call.op = "DiscreteItem" /\ call.form = "column" /\ ret.err = ""
    /\ call.vector = <<1, 1>>
    /\ units[1].transition_matrix = <<<<1, 1>>, <<1, 1>>>>

\* C8, as stated: without an init, a ContinuousItem whose recurrence has the
\* parameter prior is refused and no unit is built; one whose recurrence
\* does not take prior is built, with prior left at None.
C8_InitRequiredIffPriorIsConsumed ==
    (call.op = "ContinuousItem" /\ call.init.how = "None") =>
        IF In("prior", call.fx.args)
        THEN ret.err # "" /\ units = <<>>
        ELSE ret.err = "" /\ units # <<>> /\ units[1].prior = None

RECURSIVE Iterate(_, _, _)
\* the recurrence fx applied t times to v
Iterate(fx, v, t) == IF t = 0 THEN v ELSE Body(fx, Iterate(fx, v, t - 1)).val

\* C9: on a ContinuousItem whose recurrence f takes prior, transition()
\* returns (f(prior), f(prior)) and simulate(n) returns (values, values) with
\* values[t] the result of applying f t+1 times (t from 0) to the prior the
\* call began with; either leaves prior on the last value, so that the next
\* call goes on from there.
C9_SimulateIteratesRecurrence ==
    [][(/\ call'.op \in {"transition", "simulate"}
        /\ units # <<>>
        /\ units[call'.self].kind = "ContinuousItem"
        /\ In("prior", units[call'.self].transition_fx.args))
       => LET u == units[call'.self]
              n == IF call'.op = "transition" THEN 1 ELSE call'.n
              values == [t \in 1..n |-> Iterate(u.transition_fx, u.prior, t)]
          IN  /\ ret'.err = ""
              /\ ret'.val = IF call'.op = "transition"
                            THEN <<values[1], values[1]>>
                            ELSE <<values, values>>
              /\ units'[call'.self].prior = Iterate(u.transition_fx, u.prior, n)
              /\ units'[call'.self].transition_fx = u.transition_fx]_vars

\* C9's case: f(prior) = prior + 1 built on 0 has run simulate(5) and returned
\* ([1,2,3,4,5],[1,2,3,4,5])
C9_Witness ==
    /\ call.op = "simulate" /\ call.n = 5 /\ ret.err = ""
    /\ units[1].kind = "ContinuousItem" /\ units[1].transition_fx = FxInc
    /\ ret.val = << [t \in 1..5 |-> PyInt(t)], [t \in 1..5 |-> PyInt(t)] >>
    /\ units[1].prior = PyInt(5)

\* C10, as stated: transition() of a Budget calls transition() once on every
\* item, in construction order, and returns the labels and the values the
\* items returned, position x holding those of item x.
C10_BudgetTransitionCollects ==
    call.op = "Budget.transition" =>
        LET items == budgets[call.self].items
        IN  /\ ret.err = ""
            /\ Len(trace) = Len(items)
            /\ Len(ret.val[1]) = Len(items) /\ Len(ret.val[2]) = Len(items)
            /\ \A x \in 1..Len(items) :
                  /\ ret.val[1][x] = trace[x][1]
                  /\ ret.val[2][x] = trace[x][2]

\* C11: every simulate(n) of a ConstantItem returns ([value]*n, [value]*n), and
\* every simulate(n) of the DiscreteItem of labels {A: 1, B: 2} and matrix
\* [[1,0],[1,0]] built on B returns (['A']*n, [1]*n): the first call and every
\* call after any transitions and simulates return the same for the same n.
C11_SimulateIsDeterministic ==
    call.op = "simulate" =>
        LET u == units[call.self]
            n == call.n
        IN  ret = Ok(IF u.kind = "ConstantItem"
                     THEN <<Repeat(u.value, n), Repeat(u.value, n)>>
                     ELSE <<Repeat(PyStr("A"), n), Repeat(PyInt(1), n)>>)

\* C11's case: the DiscreteItem has run simulate(3), returned
\* (['A','A','A'], [1,1,1]) and stands on A beside the untouched ConstantItem
C11_Witness ==
    /\ call.op = "simulate" /\ call.self = 2 /\ call.n = 3
    /\ units[2].transition_matrix = <<<<One, 0>>, <<One, 0>>>>
    /\ ret.val = <<Repeat(PyStr("A"), 3), Repeat(PyInt(1), 3)>>
    /\ units[2].prior = PyStr("A")
    /\ units[1].kind = "ConstantItem"

\* C12, as stated: in every reachable state, immediately after construction
\* included, the prior of a constructed DiscreteItem is one of the labels of
\* its label map, whether init was a value, a callable or omitted.
C12_PriorIsALabel ==
    \A i \in 1..Len(units) :
        units[i].kind = "DiscreteItem" =>
            /\ In(units[i].prior, units[i].state_names)
            /\ units[i].prior.s \in DOMAIN units[i].states

RECURSIVE BudgetTransitions(_, _, _, _, _)
\* n successive self.transition() calls on a Budget, each on the heap the one
\* before left; rows collects what they returned, and a call that raises ends
\* the sequence
BudgetTransitions(self, heap, hist, n, rows) ==
    IF n <= 0
    THEN {[units |-> heap, err |-> "", rows |-> rows]}
    ELSE UNION {IF out.err # ""
                THEN {[units |-> out.units, err |-> out.err, rows |-> rows]}
                ELSE BudgetTransitions(self, out.units, out.last, n - 1,
                                       Append(rows, out.val)) :
                out \in BudgetTransition(self, heap, hist)}

\* the rows of the two tables Budget.simulate returns: row t holds the labels
\* and the values of the columns at index t - 1
Rows(tables) ==
    [t \in 1..Len(tables[1].index) |->
        << [x \in 1..Len(tables[1].data) |-> tables[1].data[x][t]],
           [x \in 1..Len(tables[2].data) |-> tables[2].data[x][t]] >>]

\* the items of a Budget are pairwise distinct objects
Distinct(items) ==
    \A x, y \in 1..Len(items) : x # y => items[x] # items[y]

\* C13, as stated: for a Budget of pairwise distinct items and every n,
\* simulate(n) and n successive transition() calls admit, from the same item
\* states, the same outcomes: row t of the tables is what the (t+1)-th
\* transition returned, and the items end on the same priors.
C13_SimulateIsNBudgetTransitions ==
    \A b \in 1..Len(budgets) :
        Distinct(budgets[b].items) =>
            \A n \in 0..MaxN :
                {[units |-> o.units, err |-> o.ret.err,
                  rows |-> IF o.ret.err # "" THEN <<>> ELSE Rows(o.ret.val)] :
                 o \in BudgetSimulate(budgets[b], units, last, n)}
                = {[units |-> o.units, err |-> o.err,
                    rows |-> IF o.err # "" THEN <<>> ELSE o.rows] :
                   o \in BudgetTransitions(budgets[b], units, last, n, <<>>)}

\* the units a call may advance: the unit called, or the items of the Budget
\* called
Owned(c, i) ==
    IF c.op \in {"transition", "simulate"} THEN i = c.self
    ELSE In(i, budgets[c.self].items)

\* C14: a transition() or simulate(n), of a unit or of a Budget, changes
\* nothing but the prior of the unit called or of the items of the Budget
\* called: no unit is added or removed, every unit keeps its name, label map,
\* matrix, recurrence and value, a ConstantItem is left wholly as it was, and
\* every Budget keeps its items in their order.
C14_OnlyPriorChanges ==
    [][call'.op \in {"transition", "simulate",
                     "Budget.transition", "Budget.simulate"}
       => /\ budgets' = budgets
          /\ Len(units') = Len(units)
          /\ \A i \in 1..Len(units) :
                /\ units'[i] = [units[i] EXCEPT !.prior = units'[i].prior]
                /\ units[i].kind = "ConstantItem" => units'[i] = units[i]
                /\ Owned(call', i) \/ units'[i] = units[i]]_vars

\* C14's case: simulate(2) of the Budget of the counter and the constant has
\* moved the counter's prior from 0 to 2 and left everything else, the
\* constant and the units outside the Budget included, as built
C14_Witness ==
    /\ call.op = "Budget.simulate" /\ call.n = 2 /\ ret.err = ""
    /\ budgets[call.self].items = <<3, 1>>
    /\ units = [SubSeq(Ledger, 1, 3) EXCEPT ![3].prior = PyInt(2)]

============================================================================
